---- MODULE Spec2Model ----
(***************************************************************************)
(* restrand-fasta: re-orient FASTA/FASTQ reads to a constant direction.    *)
(* Model of src/src/main.rs.  Text is a sequence of one-character strings, *)
(* so that searching, trimming, lower-casing and replacing are computed    *)
(* character by character as the program does.  The output sink is the     *)
(* sequence of newline-terminated lines written to it.                     *)
(***************************************************************************)
EXTENDS Integers, Sequences, FiniteSets, TLC

VARIABLES
    cli,               \* the parsed command line (struct Cli)
    pc,                \* where main() is
    target,            \* main's local `target`
    ori_map,           \* the HashMap built by load_orientation_map
    rec,               \* load_orientation_map's current row (loop local)
    rows_read,         \* rows the TSV reader has yielded
    input,             \* records the FASTA/FASTQ reader has yielded, in order
    out,               \* lines written to the output sink
    emitted,           \* per written record: which input, how resolved, where in out
    n_total,
    n_flipped,
    n_missing,
    n_no_orientation,
    err,               \* the error chain main() returned, outermost first
    report             \* the end-of-run summary written to stderr

vars == <<cli, pc, target, ori_map, rec, rows_read, input, out, emitted,
          n_total, n_flipped, n_missing, n_no_orientation, err, report>>

-----------------------------------------------------------------------------
(* Bounds of the model *)

MaxRecs == 2        \* records read from the sequence stream in one run
MaxRows == 2        \* data rows read from the orientation table in one run
MaxTokLen == 2      \* length of the generated orientation cells
MaxSeqLen == 125    \* longest sequence handed to the FASTA emitter alone

-----------------------------------------------------------------------------
(* Program constants and literals *)

FASTA_WRAP_WIDTH == 60

Marker == <<"o", "r", "i", "e", "n", "t", "a", "t", "i", "o", "n", ":">>
TagMinus == <<"o", "r", "i", "e", "n", "t", "a", "t", "i", "o", "n", ":", "-">>
TagPlus == <<"o", "r", "i", "e", "n", "t", "a", "t", "i", "o", "n", ":", "+">>

MsgUnrecognized == <<"U", "n", "r", "e", "c", "o", "g", "n", "i", "z", "e", "d", " ",
                     "o", "r", "i", "e", "n", "t", "a", "t", "i", "o", "n", " ",
                     "v", "a", "l", "u", "e", " ", "'">>
MsgForRead == <<"'", " ", "f", "o", "r", " ", "r", "e", "a", "d", " ", "'">>
MsgEmpty == <<"E", "m", "p", "t", "y", " ", "o", "r", "i", "e", "n", "t", "a", "t",
              "i", "o", "n", " ", "f", "o", "r", " ", "r", "e", "a", "d", " ", "'">>
MsgQuote == <<"'">>
MsgLoading == <<"l", "o", "a", "d", "i", "n", "g", " ", "o", "r", "i", "e", "n", "t",
                "a", "t", "i", "o", "n", " ", "t", "a", "b", "l", "e">>
MsgTarget == <<"-", "-", "t", "a", "r", "g", "e", "t", "-", "o", "r", "i", "e", "n",
               "t", "a", "t", "i", "o", "n", " ", "m", "u", "s", "t", " ", "b", "e",
               " ", "'", "+", "'", " ", "o", "r", " ", "'", "-", "'", ",", " ", "g",
               "o", "t", " ", "'">>
MsgTableRequired == <<"-", "-", "t", "a", "b", "l", "e", " ", "i", "s", " ", "r", "e",
                      "q", "u", "i", "r", "e", "d", " ", "f", "o", "r", " ", "F", "A",
                      "S", "T", "A", " ", "m", "o", "d", "e", " ", "(", "o", "r", " ",
                      "u", "s", "e", " ", "-", "-", "f", "a", "s", "t", "q", " ", "f",
                      "o", "r", " ", "F", "A", "S", "T", "Q", " ", "m", "o", "d", "e",
                      ")">>

-----------------------------------------------------------------------------
(* Text primitives of the standard library, computed on characters *)

Upper == <<"A", "B", "C", "D", "E", "F", "G", "H", "I", "J", "K", "L", "M",
           "N", "O", "P", "Q", "R", "S", "T", "U", "V", "W", "X", "Y", "Z">>
Lower == <<"a", "b", "c", "d", "e", "f", "g", "h", "i", "j", "k", "l", "m",
           "n", "o", "p", "q", "r", "s", "t", "u", "v", "w", "x", "y", "z">>

Whitespace == {" ", "\t"}

\* char::to_ascii_lowercase
lower_char(c) ==
    IF \E i \in 1..26 : Upper[i] = c
    THEN Lower[CHOOSE i \in 1..26 : Upper[i] = c]
    ELSE c

\* str::to_ascii_lowercase
to_ascii_lowercase(s) == [i \in 1..Len(s) |-> lower_char(s[i])]

\* str::starts_with
starts_with(s, p) == Len(s) >= Len(p) /\ SubSeq(s, 1, Len(p)) = p

\* str::find: the 0-based index of the first occurrence of p in s, -1 for None
find(s, p) ==
    LET hits == {i \in 0..(Len(s) - Len(p)) : SubSeq(s, i + 1, i + Len(p)) = p}
    IN  IF hits = {} THEN -1 ELSE CHOOSE i \in hits : \A j \in hits : i <= j

\* str::trim
RECURSIVE trim_start(_)
trim_start(s) ==
    IF s # <<>> /\ Head(s) \in Whitespace THEN trim_start(Tail(s)) ELSE s

RECURSIVE trim_end(_)
trim_end(s) ==
    IF s # <<>> /\ s[Len(s)] \in Whitespace
    THEN trim_end(SubSeq(s, 1, Len(s) - 1))
    ELSE s

trim(s) == trim_end(trim_start(s))

\* str::replace: every non-overlapping occurrence, leftmost first
RECURSIVE replace(_, _, _)
replace(s, from, to) ==
    IF Len(s) < Len(from) THEN s
    ELSE IF SubSeq(s, 1, Len(from)) = from
         THEN to \o replace(SubSeq(s, Len(from) + 1, Len(s)), from, to)
         ELSE <<Head(s)>> \o replace(Tail(s), from, to)

\* reverse with the reversal forgotten
reverse_noop(s) == s

\* slice::reverse
reverse(s) == [i \in 1..Len(s) |-> s[Len(s) + 1 - i]]

\* chunks cutting one byte late
RECURSIVE chunks_wide(_, _)
chunks_wide(s, w) ==
    IF s = <<>> THEN <<>>
    ELSE IF Len(s) <= w + 1 THEN <<s>>
    ELSE <<SubSeq(s, 1, w + 1)>> \o chunks_wide(SubSeq(s, w + 2, Len(s)), w)

\* slice::chunks
RECURSIVE chunks(_, _)
chunks(s, w) ==
    IF s = <<>> THEN <<>>
    ELSE IF Len(s) <= w THEN <<s>>
    ELSE <<SubSeq(s, 1, w)>> \o chunks(SubSeq(s, w + 1, Len(s)), w)

-----------------------------------------------------------------------------
(* bio::alphabets::dna as called by the program *)

CompFrom == <<"A", "G", "C", "T", "Y", "R", "W", "S", "K", "M", "D", "V", "H", "B", "N">>
CompTo == <<"T", "C", "G", "A", "R", "Y", "W", "S", "M", "K", "H", "B", "D", "V", "N">>

\* dna::complement: the symbol table in both cases, every other byte unchanged
complement(c) ==
    IF \E i \in 1..15 : CompFrom[i] = c
    THEN CompTo[CHOOSE i \in 1..15 : CompFrom[i] = c]
    ELSE IF \E i \in 1..15 : lower_char(CompFrom[i]) = c
         THEN lower_char(CompTo[CHOOSE i \in 1..15 : lower_char(CompFrom[i]) = c])
         ELSE c

\* revcomp that complements without reversing
revcomp_forward(s) == [i \in 1..Len(s) |-> complement(s[i])]

\* dna::revcomp: text.rev().map(complement)
revcomp(s) == [i \in 1..Len(s) |-> complement(s[Len(s) + 1 - i])]

-----------------------------------------------------------------------------
(* The program's functions *)

\* parse_orientation with "rc" tested as a prefix instead of for equality
parse_orientation_rc_prefix(cell, id) ==
    LET ori_field == trim(cell) IN
    IF ori_field # <<>>
    THEN IF ori_field[1] = "+" THEN [ok |-> TRUE, ori |-> "+", msg |-> <<>>]
         ELSE IF ori_field[1] = "-" THEN [ok |-> TRUE, ori |-> "-", msg |-> <<>>]
         ELSE LET s == to_ascii_lowercase(ori_field) IN
              IF starts_with(s, <<"p", "l", "u", "s">>)
                    \/ starts_with(s, <<"f", "w", "d">>) \/ s = <<"1">>
              THEN [ok |-> TRUE, ori |-> "+", msg |-> <<>>]
              ELSE IF starts_with(s, <<"m", "i", "n", "u", "s">>)
                         \/ starts_with(s, <<"r", "e", "v">>)
                         \/ s = <<"0">> \/ starts_with(s, <<"r", "c">>)
                   THEN [ok |-> TRUE, ori |-> "-", msg |-> <<>>]
                   ELSE [ok |-> FALSE, ori |-> "none",
                         msg |-> MsgUnrecognized \o s \o MsgForRead \o id \o MsgQuote]
    ELSE [ok |-> FALSE, ori |-> "none", msg |-> MsgEmpty \o id \o MsgQuote]

\* load_orientation_map, one row: the orientation of a cell, or the error it bails with
parse_orientation(cell, id) ==
    LET ori_field == trim(cell) IN
    IF ori_field # <<>>
    THEN IF ori_field[1] = "+" THEN [ok |-> TRUE, ori |-> "+", msg |-> <<>>]
         ELSE IF ori_field[1] = "-" THEN [ok |-> TRUE, ori |-> "-", msg |-> <<>>]
         ELSE LET s == to_ascii_lowercase(ori_field) IN
              IF starts_with(s, <<"p", "l", "u", "s">>)
                    \/ starts_with(s, <<"f", "w", "d">>) \/ s = <<"1">>
              THEN [ok |-> TRUE, ori |-> "+", msg |-> <<>>]
              ELSE IF starts_with(s, <<"m", "i", "n", "u", "s">>)
                         \/ starts_with(s, <<"r", "e", "v">>)
                         \/ s = <<"0">> \/ s = <<"r", "c">>
                   THEN [ok |-> TRUE, ori |-> "-", msg |-> <<>>]
                   ELSE [ok |-> FALSE, ori |-> "none",
                         msg |-> MsgUnrecognized \o s \o MsgForRead \o id \o MsgQuote]
    ELSE [ok |-> FALSE, ori |-> "none", msg |-> MsgEmpty \o id \o MsgQuote]

\* HashMap::insert: the last row of an identifier wins
map_insert(m, id, ori) ==
    [k \in (DOMAIN m) \cup {id} |-> IF k = id THEN ori ELSE m[k]]

\* extract_orientation_from_header: "+", "-" or "none"
extract_orientation_from_header(header) ==
    LET start == find(header, Marker) IN
    IF start # -1
    THEN LET rest == SubSeq(header, start + Len(Marker) + 1, Len(header)) IN
         IF rest # <<>>
         THEN IF rest[1] = "+" THEN "+"
              ELSE IF rest[1] = "-" THEN "-"
              ELSE "none"
         ELSE "none"
    ELSE "none"

update_orientation_in_header(header) == replace(header, TagMinus, TagPlus)

\* wrap_and_write: each chunk, then a newline
wrap_and_write(w, seq) == w \o chunks(seq, FASTA_WRAP_WIDTH)

\* the header both loops build from the record's id and description
build_header(id, desc) == IF desc # <<>> THEN id \o <<" ">> \o desc ELSE id

\* decide_action that drops a missing record whatever drop_missing says
decide_action_drops(m, id, tgt, drop_missing) ==
    IF id \in DOMAIN m
    THEN IF m[id] = tgt THEN "keep" ELSE "flip"
    ELSE "skip"

\* main's "Decide action" match; "skip" is the `continue` of drop_missing
decide_action(m, id, tgt, drop_missing) ==
    IF id \in DOMAIN m
    THEN IF m[id] = tgt THEN "keep" ELSE "flip"
    ELSE IF drop_missing THEN "skip" ELSE "keep"

\* fasta_record that puts the suffix on the identifier instead of the header's end
fasta_record_suffix_on_id(r, action, flipped_suffix) ==
    [header |-> IF action = "flip" /\ flipped_suffix # <<>>
                THEN build_header(r.id \o flipped_suffix, r.desc)
                ELSE build_header(r.id, r.desc),
     seq |-> IF action = "flip" THEN revcomp(r.seq) ELSE r.seq]

\* main's loop body after the decision: the header and sequence it emits
fasta_record(r, action, flipped_suffix) ==
    LET header == build_header(r.id, r.desc) IN
    [header |-> IF action = "flip" /\ flipped_suffix # <<>>
                THEN header \o flipped_suffix ELSE header,
     seq |-> IF action = "flip" THEN revcomp(r.seq) ELSE r.seq]

\* main's emit: the header line, then the wrapped sequence
emit_fasta(w, header, seq) == wrap_and_write(Append(w, <<">">> \o header), seq)

\* process_fastq's loop body: the resolved tag and the record it emits
fastq_record(r, tgt) ==
    LET header == build_header(r.id, r.desc)
        ori == extract_orientation_from_header(header)
        flip == ori # "none" /\ ori # tgt
    IN  [ori |-> ori,
         flip |-> flip,
         header |-> IF flip THEN update_orientation_in_header(header) ELSE header,
         seq |-> IF flip THEN revcomp(r.seq) ELSE r.seq,
         qual |-> IF flip THEN reverse(r.qual) ELSE r.qual]

\* process_fastq's emit: four lines
emit_fastq(w, header, seq, qual) ==
    w \o <<(<<"@">> \o header), seq, <<"+">>, qual>>

-----------------------------------------------------------------------------
(* Inputs *)

R1 == <<"r", "1">>
R2 == <<"r", "2">>

NoRow == [id |-> <<>>, cell |-> <<>>, read |-> FALSE]
NoReport == [mode |-> "none", processed |-> 0, flipped |-> 0, missing_in_table |-> 0,
             no_orientation_tag |-> 0, drop_mode |-> "none", wrap |-> 0]

Suffixes == {<<>>, <<"/", "r", "c">>, <<"/", "r", " ", "c">>}

\* command lines: the FASTA-only options keep their defaults in FASTQ mode
CliSet ==
    [fastq : {FALSE}, table : {TRUE}, target_orientation : {<<"+">>, <<"-">>},
     drop_missing : BOOLEAN, flipped_suffix : Suffixes]
    \cup
    [fastq : {TRUE}, table : {FALSE}, target_orientation : {<<"+">>, <<"-">>},
     drop_missing : {FALSE}, flipped_suffix : {<<>>}]
    \cup
    [fastq : BOOLEAN, table : {FALSE}, target_orientation : {<<"x">>, <<"+">>},
     drop_missing : {FALSE}, flipped_suffix : {<<>>}]

TableIds == {R1, R2}

TokChars == {"+", "-", "r", "c", "R", " "}

WrittenCells ==
    { <<"+">>, <<"-">>, <<"+", "1">>, <<"-", "x">>, <<"x", "+">>,
      <<"p", "l", "u", "s">>, <<"P", "l", "u", "s">>, <<"P", "L", "U", "S", "x">>,
      <<"p", "l", "u">>, <<"f", "w", "d">>, <<"F", "W", "D">>,
      <<"F", "o", "r", "w", "a", "r", "d">>, <<"1">>, <<"1", "0">>, <<"0">>, <<"0", "0">>,
      <<"m", "i", "n", "u", "s">>, <<"M", "i", "n", "u", "s">>, <<"m", "i", "n", "u">>,
      <<"r", "e", "v">>, <<"R", "e", "v", "e", "r", "s", "e">>, <<"R", "E", "V">>,
      <<"r", "c">>, <<"R", "C">>, <<"r", "c", "x">>, <<"W", "u", "t">>, <<"w", "u", "t">>,
      <<>>, <<" ">>, <<" ", "r", "e", "v", " ">>, <<" ", "W", "u", "t", " ">>,
      <<"\t", "0", " ">> }

Cells == WrittenCells \cup UNION {[1..n -> TokChars] : n \in 0..MaxTokLen}

Seqs == {<<>>, <<"A", "c", "G", "N", "t">>}

FastaPool ==
    [id : {R1, R2}, desc : {<<>>, <<"d", "e", "s", "c">>}, seq : Seqs, qual : {<<>>}]

TwoTags == TagMinus \o <<" ">> \o TagMinus

FastqHeaders ==
    { [id |-> R1, desc |-> <<>>],
      [id |-> R1, desc |-> TagPlus],
      [id |-> R1, desc |-> TagMinus],
      [id |-> R1, desc |-> Marker],
      [id |-> R1, desc |-> Marker \o <<"x">>],
      [id |-> R1, desc |-> Marker \o <<"x", " ">> \o TagPlus],
      [id |-> R1, desc |-> TwoTags],
      [id |-> R1, desc |-> TagPlus \o <<" ">> \o TagMinus],
      [id |-> R1 \o <<"_">> \o TagMinus, desc |-> <<>>],
      [id |-> TagMinus, desc |-> <<"x">>] }

FastqPayloads ==
    { [seq |-> <<>>, qual |-> <<>>],
      [seq |-> <<"A", "c", "G", "N", "t">>, qual |-> <<"I", "5", "#", "!", "F">>] }

FastqPool ==
    { [id |-> h.id, desc |-> h.desc, seq |-> p.seq, qual |-> p.qual] :
        h \in FastqHeaders, p \in FastqPayloads }

Base7 == <<"A", "C", "G", "T", "N", "a", "c">>
LongSeq(L, k) == [i \in 1..L |-> Base7[((i * k) % 7) + 1]]
LongSeqs == {LongSeq(L, k) : L \in 0..MaxSeqLen, k \in {1, 3}}

-----------------------------------------------------------------------------
(* main() *)

Init ==
    /\ cli \in CliSet
    /\ pc = "main"
    /\ target = "none"
    /\ ori_map = <<>>
    /\ rec = NoRow
    /\ rows_read = 0
    /\ input = <<>>
    /\ out = <<>>
    /\ emitted = <<>>
    /\ n_total = 0
    /\ n_flipped = 0
    /\ n_missing = 0
    /\ n_no_orientation = 0
    /\ err = <<>>
    /\ report = NoReport

\* main, up to the loop it enters: the target, the mode, the table argument
Main ==
    /\ pc = "main"
    /\ IF cli.target_orientation \notin {<<"+">>, <<"-">>}
       THEN /\ pc' = "failed"
            /\ err' = <<MsgTarget \o cli.target_orientation \o MsgQuote>>
            /\ target' = target
       ELSE IF cli.fastq
       THEN /\ pc' = "fastq"
            /\ target' = cli.target_orientation[1]
            /\ err' = err
       ELSE IF ~cli.table
       THEN /\ pc' = "failed"
            /\ err' = <<MsgTableRequired>>
            /\ target' = cli.target_orientation[1]
       ELSE /\ pc' = "load"
            /\ target' = cli.target_orientation[1]
            /\ err' = err
    /\ UNCHANGED <<cli, ori_map, rec, rows_read, input, out, emitted,
                   n_total, n_flipped, n_missing, n_no_orientation, report>>

\* load_orientation_map: the reader yields a row; it is parsed and inserted, or the
\* load bails and main adds its context
LoadRow ==
    /\ pc = "load"
    /\ rows_read < MaxRows
    /\ \E id \in TableIds, cell \in Cells :
          LET p == parse_orientation(cell, id) IN
          /\ rec' = [id |-> id, cell |-> cell, read |-> TRUE]
          /\ rows_read' = rows_read + 1
          /\ IF p.ok
             THEN /\ ori_map' = map_insert(ori_map, id, p.ori)
                  /\ UNCHANGED <<pc, err>>
             ELSE /\ pc' = "failed"
                  /\ err' = <<MsgLoading, p.msg>>
                  /\ UNCHANGED ori_map
    /\ UNCHANGED <<cli, target, input, out, emitted,
                   n_total, n_flipped, n_missing, n_no_orientation, report>>

\* load_orientation_map returns the map; main opens the writer and the reader
LoadEnd ==
    /\ pc = "load"
    /\ pc' = "fasta"
    /\ rec' = NoRow
    /\ UNCHANGED <<cli, target, ori_map, rows_read, input, out, emitted,
                   n_total, n_flipped, n_missing, n_no_orientation, err, report>>

\* main's loop, one record
FastaRecord ==
    /\ pc = "fasta"
    /\ n_total < MaxRecs
    /\ \E r \in FastaPool :
          LET action == decide_action(ori_map, r.id, target, cli.drop_missing)
              e == fasta_record(r, action, cli.flipped_suffix)
              w == emit_fasta(out, e.header, e.seq)
          IN  /\ input' = Append(input, r)
              /\ n_total' = n_total + 1
              /\ IF action = "skip"
                 THEN /\ n_missing' = n_missing + 1
                      /\ UNCHANGED <<n_flipped, out, emitted>>
                 ELSE /\ n_flipped' = IF action = "flip" THEN n_flipped + 1 ELSE n_flipped
                      /\ out' = w
                      /\ emitted' = Append(emitted,
                            [idx |-> n_total + 1,
                             ori |-> IF r.id \in DOMAIN ori_map THEN ori_map[r.id]
                                     ELSE "none",
                             first |-> Len(out) + 1,
                             nlines |-> Len(w) - Len(out)])
                      /\ UNCHANGED n_missing
    /\ UNCHANGED <<cli, pc, target, ori_map, rec, rows_read, n_no_orientation,
                   err, report>>

\* main after the loop: the summary line
FastaEnd ==
    /\ pc = "fasta"
    /\ pc' = "done"
    /\ report' = [mode |-> "FASTA", processed |-> n_total, flipped |-> n_flipped,
                  missing_in_table |-> n_missing, no_orientation_tag |-> 0,
                  drop_mode |-> IF cli.drop_missing THEN "dropped" ELSE "kept",
                  wrap |-> FASTA_WRAP_WIDTH]
    /\ UNCHANGED <<cli, target, ori_map, rec, rows_read, input, out, emitted,
                   n_total, n_flipped, n_missing, n_no_orientation, err>>

\* process_fastq's loop, one record
FastqRecord ==
    /\ pc = "fastq"
    /\ n_total < MaxRecs
    /\ \E r \in FastqPool :
          LET e == fastq_record(r, target)
              w == emit_fastq(out, e.header, e.seq, e.qual)
          IN  /\ input' = Append(input, r)
              /\ n_total' = n_total + 1
              /\ n_flipped' = IF e.flip THEN n_flipped + 1 ELSE n_flipped
              /\ n_no_orientation' = IF e.ori = "none" THEN n_no_orientation + 1
                                     ELSE n_no_orientation
              /\ out' = w
              /\ emitted' = Append(emitted,
                    [idx |-> n_total + 1, ori |-> e.ori,
                     first |-> Len(out) + 1, nlines |-> Len(w) - Len(out)])
    /\ UNCHANGED <<cli, pc, target, ori_map, rec, rows_read, n_missing, err, report>>

\* process_fastq after the loop: the summary line
FastqEnd ==
    /\ pc = "fastq"
    /\ pc' = "done"
    /\ report' = [mode |-> "FASTQ", processed |-> n_total, flipped |-> n_flipped,
                  missing_in_table |-> 0, no_orientation_tag |-> n_no_orientation,
                  drop_mode |-> "none", wrap |-> 0]
    /\ UNCHANGED <<cli, target, ori_map, rec, rows_read, input, out, emitted,
                   n_total, n_flipped, n_missing, n_no_orientation, err>>

Next ==
    \/ Main
    \/ LoadRow
    \/ LoadEnd
    \/ FastaRecord
    \/ FastaEnd
    \/ FastqRecord
    \/ FastqEnd

Spec == Init /\ [][Next]_vars

-----------------------------------------------------------------------------
(* The FASTA emitter alone, on sequences long enough to wrap *)

InitWrap ==
    /\ cli = [fastq |-> FALSE, table |-> TRUE, target_orientation |-> <<"+">>,
              drop_missing |-> FALSE, flipped_suffix |-> <<>>]
    /\ pc = "emit"
    /\ target = "+"
    /\ ori_map = <<>>
    /\ rec = NoRow
    /\ rows_read = 0
    /\ \E s \in LongSeqs :
          input = <<[id |-> R1, desc |-> <<>>, seq |-> s, qual |-> <<>>]>>
    /\ out = <<>>
    /\ emitted = <<>>
    /\ n_total = 0
    /\ n_flipped = 0
    /\ n_missing = 0
    /\ n_no_orientation = 0
    /\ err = <<>>
    /\ report = NoReport

EmitLong ==
    /\ pc = "emit"
    /\ pc' = "emitted"
    /\ out' = emit_fasta(out, build_header(input[1].id, input[1].desc), input[1].seq)
    /\ UNCHANGED <<cli, target, ori_map, rec, rows_read, input, emitted,
                   n_total, n_flipped, n_missing, n_no_orientation, err, report>>

NextWrap == EmitLong

SpecWrap == InitWrap /\ [][NextWrap]_vars

-----------------------------------------------------------------------------
(* Vocabulary of the properties *)

RECURSIVE Flatten(_)
Flatten(lines) == IF lines = <<>> THEN <<>> ELSE Head(lines) \o Flatten(Tail(lines))

Contains(s, p) == \E i \in 0..(Len(s) - Len(p)) : SubSeq(s, i + 1, i + Len(p)) = p

\* the text up to the first whitespace
FirstToken(h) ==
    LET ws == {i \in 1..Len(h) : h[i] \in Whitespace} IN
    IF ws = {} THEN h
    ELSE SubSeq(h, 1, (CHOOSE i \in ws : \A j \in ws : i <= j) - 1)

\* the text after the first whitespace
AfterFirstToken(h) ==
    LET ws == {i \in 1..Len(h) : h[i] \in Whitespace} IN
    IF ws = {} THEN <<>>
    ELSE SubSeq(h, (CHOOSE i \in ws : \A j \in ws : i <= j) + 1, Len(h))

SymmetricPairs ==
    { <<"A", "T">>, <<"C", "G">>, <<"Y", "R">>, <<"W", "W">>, <<"S", "S">>,
      <<"K", "M">>, <<"D", "H">>, <<"V", "B">>, <<"N", "N">>,
      <<"a", "t">>, <<"c", "g">>, <<"y", "r">>, <<"w", "w">>, <<"s", "s">>,
      <<"k", "m">>, <<"d", "h">>, <<"v", "b">>, <<"n", "n">> }

Complementary(x, y) ==
    \/ <<x, y>> \in SymmetricPairs
    \/ <<y, x>> \in SymmetricPairs
    \/ x = y /\ \A q \in SymmetricPairs : x # q[1] /\ x # q[2]

IsReverseComplement(a, b) ==
    Len(a) = Len(b) /\ \A i \in 1..Len(a) : Complementary(a[Len(a) + 1 - i], b[i])

IsReversal(a, b) ==
    Len(a) = Len(b) /\ \A i \in 1..Len(a) : b[i] = a[Len(a) + 1 - i]

Emitted == {emitted[k] : k \in 1..Len(emitted)}

\* what the sink holds for an emitted record
OutHeader(e) == Tail(out[e.first])
OutSeq(e) ==
    IF cli.fastq THEN out[e.first + 1]
    ELSE Flatten(SubSeq(out, e.first + 1, e.first + e.nlines - 1))
OutQual(e) == out[e.first + 3]

\* the record's resolved orientation is Plus or Minus and is not the target
MustFlip(e) == e.ori \in {"+", "-"} /\ e.ori # target

HasPrefixIgnoringCase(tok, p) ==
    Len(tok) >= Len(p) /\ \A i \in 1..Len(p) : lower_char(tok[i]) = p[i]

EqualsIgnoringCase(tok, p) == Len(tok) = Len(p) /\ HasPrefixIgnoringCase(tok, p)

\* the documented table-mode rules, on a trimmed token
DocPlus(tok) ==
    /\ tok # <<>>
    /\ \/ tok[1] = "+"
       \/ /\ tok[1] # "-"
          /\ \/ HasPrefixIgnoringCase(tok, <<"p", "l", "u", "s">>)
             \/ HasPrefixIgnoringCase(tok, <<"f", "w", "d">>)
             \/ tok = <<"1">>

DocMinus(tok) ==
    /\ tok # <<>>
    /\ \/ tok[1] = "-"
       \/ /\ tok[1] # "+"
          /\ \/ HasPrefixIgnoringCase(tok, <<"m", "i", "n", "u", "s">>)
             \/ HasPrefixIgnoringCase(tok, <<"r", "e", "v">>)
             \/ tok = <<"0">>
             \/ EqualsIgnoringCase(tok, <<"r", "c">>)

DocUnrecognized(tok) == tok # <<>> /\ ~DocPlus(tok) /\ ~DocMinus(tok)

\* the sign after the first occurrence of the marker that a sign follows
FirstSignedTag(h) ==
    LET hits == {i \in 0..(Len(h) - Len(Marker) - 1) :
                    /\ SubSeq(h, i + 1, i + Len(Marker)) = Marker
                    /\ h[i + Len(Marker) + 1] \in {"+", "-"}}
    IN  IF hits = {} THEN "none"
        ELSE h[(CHOOSE i \in hits : \A j \in hits : i <= j) + Len(Marker) + 1]

InFasta == ~cli.fastq /\ pc \in {"fasta", "done"}
InFastq == cli.fastq /\ pc \in {"fastq", "done"}

-----------------------------------------------------------------------------
(* Properties *)

\* C1: every emitted record, FASTA or FASTQ, either target: when its resolved
\* orientation is Plus or Minus and differs from the target, the output sequence is
\* the reverse complement of the input sequence; otherwise (equal to the target, tag
\* unknown, identifier missing and kept) the output sequence is the input sequence.
C1_SequenceFlippedOrKept ==
    \A e \in Emitted :
        IF MustFlip(e)
        THEN IsReverseComplement(input[e.idx].seq, OutSeq(e))
        ELSE OutSeq(e) = input[e.idx].seq

C1_Witness ==
    /\ InFasta
    /\ target = "-"
    /\ \E e \in Emitted : MustFlip(e) /\ input[e.idx].seq # <<>>
    /\ \E e \in Emitted : e.ori = "none" /\ input[e.idx].seq # <<>>

\* C2: FASTQ: an input record with equally long sequence and quality is emitted with
\* equally long sequence and quality; a flipped record's quality is the exact
\* reversal of the input quality, a kept record's quality is unchanged.
C2_QualityFollowsSequence ==
    InFastq =>
        \A e \in Emitted :
            Len(input[e.idx].seq) = Len(input[e.idx].qual) =>
                /\ Len(OutSeq(e)) = Len(OutQual(e))
                /\ IF MustFlip(e)
                   THEN IsReversal(input[e.idx].qual, OutQual(e))
                   ELSE OutQual(e) = input[e.idx].qual

C2_Witness ==
    /\ InFastq
    /\ \E e \in Emitted :
          /\ MustFlip(e)
          /\ Len(input[e.idx].qual) = 5
          /\ OutQual(e) # input[e.idx].qual
    /\ \E e \in Emitted : ~MustFlip(e) /\ Len(input[e.idx].qual) = 5

\* C3: FASTA: with drop_missing false every input record is emitted exactly once, in
\* input order; with drop_missing true exactly the records whose identifier is in the
\* table are emitted, in their input order, and none that is absent from it.
C3_OutputOrder ==
    InFasta =>
        /\ \A k \in 1..Len(emitted) :
              /\ emitted[k].first = IF k = 1 THEN 1
                                    ELSE emitted[k - 1].first + emitted[k - 1].nlines
              /\ starts_with(out[emitted[k].first],
                             <<">">> \o input[emitted[k].idx].id)
        /\ Len(out) = IF emitted = <<>> THEN 0
                      ELSE emitted[Len(emitted)].first + emitted[Len(emitted)].nlines - 1
        /\ \A k \in 1..(Len(emitted) - 1) : emitted[k].idx < emitted[k + 1].idx
        /\ {e.idx : e \in Emitted} =
              IF cli.drop_missing
              THEN {i \in 1..Len(input) : input[i].id \in DOMAIN ori_map}
              ELSE 1..Len(input)

C3_Witness ==
    /\ InFasta
    /\ cli.drop_missing
    /\ Len(input) = 2
    /\ input[1].id \notin DOMAIN ori_map
    /\ input[2].id \in DOMAIN ori_map
    /\ Len(emitted) = 1
    /\ emitted[1].idx = 2

\* C4: the FASTA emitter writes, after the header line, exactly ceil(L/60) sequence
\* lines for a sequence of length L; each but the last has length 60, the last has
\* length 1..60, the lines concatenated are the sequence, and for L = 0 there is no
\* sequence line.
C4_Wrapping ==
    pc = "emitted" =>
        LET seq == input[1].seq
            L == Len(seq)
            lines == Tail(out)
            n == Len(lines)
        IN  /\ out[1] = <<">">> \o input[1].id
            /\ n = (L + 59) \div 60
            /\ \A i \in 1..(n - 1) : Len(lines[i]) = 60
            /\ n > 0 => Len(lines[n]) \in 1..60
            /\ Flatten(lines) = seq
            /\ L = 0 => Len(out) = 1

C4_Witness ==
    /\ pc = "emitted"
    /\ Len(input[1].seq) = 121
    /\ Len(out) = 4
    /\ Len(out[4]) = 1

\* C5: a trimmed table cell resolves by the documented rules: Plus for a leading '+',
\* Minus for a leading '-', else Plus when lower-cased it starts with "plus" or "fwd"
\* or is "1", Minus when it starts with "minus" or "rev" or is "0" or "rc"; empty
\* fails as an empty orientation, any other token as an unrecognized one; no token
\* resolves both ways.
C5_TableParsing ==
    rec.read =>
        LET tok == trim(rec.cell) IN
        /\ ~(DocPlus(tok) /\ DocMinus(tok))
        /\ DocPlus(tok) =>
              pc = "load" /\ rec.id \in DOMAIN ori_map /\ ori_map[rec.id] = "+"
        /\ DocMinus(tok) =>
              pc = "load" /\ rec.id \in DOMAIN ori_map /\ ori_map[rec.id] = "-"
        /\ tok = <<>> =>
              pc = "failed" /\ starts_with(err[Len(err)], MsgEmpty)
        /\ DocUnrecognized(tok) =>
              pc = "failed" /\ starts_with(err[Len(err)], MsgUnrecognized)

C5_Witness ==
    /\ pc = "load"
    /\ rec.read
    /\ rec.cell = <<"R", "e", "v", "e", "r", "s", "e">>
    /\ ori_map[rec.id] = "-"

\* C6: when a table row holds a non-empty token that matches no rule, the run fails
\* and the diagnostic contains the token exactly as it stands in the cell (trimmed).
C6_MessageHasLiteralToken ==
    (rec.read /\ DocUnrecognized(trim(rec.cell))) =>
        /\ pc = "failed"
        /\ Contains(err[Len(err)], trim(rec.cell))

\* C7: FASTA: the reported 'missing' counter is the number of input records whose
\* identifier is absent from the table, with drop_missing true and false alike.
C7_MissingCounted ==
    (pc = "done" /\ report.mode = "FASTA") =>
        report.missing_in_table =
            Cardinality({i \in 1..Len(input) : input[i].id \notin DOMAIN ori_map})

\* C8: the FASTQ tag resolver yields the sign of the first occurrence of
\* `orientation:` that a '+' or '-' immediately follows, and Unknown only when no
\* occurrence of the marker is followed by a sign.
C8_TagOfFirstSignedMarker ==
    InFastq =>
        \A e \in Emitted :
            e.ori = FirstSignedTag(build_header(input[e.idx].id, input[e.idx].desc))

\* C9 as stated: the identifier of every emitted record (its header up to the first
\* whitespace) is the identifier of the input record.
C9_IdentifierUnchanged ==
    \A e \in Emitted : FirstToken(OutHeader(e)) = input[e.idx].id

\* C9 as amended: a kept record keeps its identifier; a flipped FASTA record keeps it
\* when it has a description or the suffix is empty, and otherwise carries the
\* identifier with the suffix appended (up to the suffix's first whitespace); a
\* flipped FASTQ record carries the identifier with every `orientation:-` rewritten to
\* `orientation:+`, so keeps it when the identifier holds no such tag.
C9_IdentifierUnlessSuffixedOrRetagged ==
    \A e \in Emitted :
        LET r == input[e.idx]
            id_out == FirstToken(OutHeader(e))
        IN  IF ~MustFlip(e) THEN id_out = r.id
            ELSE IF cli.fastq
            THEN /\ id_out = replace(r.id, TagMinus, TagPlus)
                 /\ ~Contains(r.id, TagMinus) => id_out = r.id
            ELSE /\ (r.desc # <<>> \/ cli.flipped_suffix = <<>>) => id_out = r.id
                 /\ (r.desc = <<>> /\ cli.flipped_suffix # <<>>) =>
                        id_out = FirstToken(r.id \o cli.flipped_suffix)

C9_Witness ==
    /\ InFasta
    /\ cli.flipped_suffix = <<"/", "r", "c">>
    /\ \E e \in Emitted :
          /\ MustFlip(e)
          /\ input[e.idx].desc = <<>>
          /\ FirstToken(OutHeader(e)) = input[e.idx].id \o <<"/", "r", "c">>
    /\ \E e \in Emitted :
          /\ MustFlip(e)
          /\ input[e.idx].desc # <<>>
          /\ FirstToken(OutHeader(e)) = input[e.idx].id

\* C10: FASTQ, either target: an emitted record whose input header resolved to Plus or
\* Minus carries a header whose tag resolves to the target, and the pipeline run on
\* that output record flips nothing and reproduces it.
C10_OutputTaggedWithTarget ==
    InFastq =>
        \A e \in Emitted :
            e.ori \in {"+", "-"} =>
                LET again == fastq_record(
                                 [id |-> FirstToken(OutHeader(e)),
                                  desc |-> AfterFirstToken(OutHeader(e)),
                                  seq |-> OutSeq(e), qual |-> OutQual(e)], target)
                IN  /\ extract_orientation_from_header(OutHeader(e)) = target
                    /\ ~again.flip
                    /\ again.header = OutHeader(e)
                    /\ again.seq = OutSeq(e)
                    /\ again.qual = OutQual(e)

====
